---- MODULE Spec2Model ----
(***************************************************************************)
(* Model of src/main.py: the orchestration script that builds a two-host   *)
(* emulated topology, starts two containers in it, runs a script in each,  *)
(* waits for the user, and tears everything down.                          *)
(*                                                                         *)
(* The script is one sequential process.  Its state is its position (pc),  *)
(* its locals (args, bandwidth, delay, middle_link), what it has printed   *)
(* (log), the external calls that have completed (calls) and, once main()  *)
(* has been left, how the process ended (term, exitCode).  The environment *)
(* it acts on is the 'shared' directory (fs), the emulated network         *)
(* (netRunning) and the containers known to the manager (containers); the  *)
(* environment outlives the process, so a later run starts from what an    *)
(* earlier one left behind.                                                *)
(*                                                                         *)
(* Units: bandwidth is counted in halves of the floor of line 26, i.e. in  *)
(* 0.0000005 Mbit/s; delay is counted in ms.                               *)
(***************************************************************************)
EXTENDS Integers, Sequences, FiniteSets, TLC

VARIABLES pc, args, bandwidth, delay, middle_link, calls, log, exc,
          term, exitCode, fs, netRunning, containers, runs

vars == <<pc, args, bandwidth, delay, middle_link, calls, log, exc,
          term, exitCode, fs, netRunning, containers, runs>>

-----------------------------------------------------------------------------
(* Bounds of the model *)

\* numeric command-line values range from -MaxMag to floor + MaxMag
MaxMag == 3
\* number of times the script is run again on the same machine
MaxRuns == 1

-----------------------------------------------------------------------------
(* Program constants *)

\* line 26: 0.000001 Mbit/s, in units of 0.0000005 Mbit/s
MinBw == 2
\* line 27: 0 ms
MinDelay == 0
\* line 17: default=10 Mbit/s, in units of 0.0000005 Mbit/s
DefaultBw == 20000000
\* line 20: default=10 ms
DefaultDelay == 10

-----------------------------------------------------------------------------
(* Python values *)

PyInt(n) == [type |-> "int", nan |-> FALSE, v |-> n]
PyFloat(n) == [type |-> "float", nan |-> FALSE, v |-> n]
PyNaN == [type |-> "float", nan |-> TRUE, v |-> 0]
PyNone == [type |-> "NoneType", nan |-> FALSE, v |-> 0]
Unset == [type |-> "unbound", nan |-> FALSE, v |-> 0]

IsNumber(x) == x.type \in {"int", "float"}
\* a number that is not NaN
IsReal(x) == IsNumber(x) /\ ~x.nan

\* a > b on Python numbers: every comparison with NaN is False
PyGt(a, b) == IsReal(a) /\ IsReal(b) /\ a.v > b.v

\* max(a, b): the first argument unless the second is greater
PyMax(a, b) == IF PyGt(b, a) THEN b ELSE a

\* str(x) as an f-string prints it
PyStr(x) ==
    IF x.nan THEN "nan"
    ELSE LET digits == IF x.v < 0 THEN "-" \o ToString(0 - x.v) ELSE ToString(x.v)
         IN  IF x.type = "float" THEN digits \o ".0" ELSE digits

-----------------------------------------------------------------------------
(* Exceptions *)

Parent(cls) ==
    CASE cls = "FileExistsError" -> "OSError"
      [] cls = "PermissionError" -> "OSError"
      [] cls = "OSError" -> "Exception"
      [] cls = "CalledProcessError" -> "SubprocessError"
      [] cls = "SubprocessError" -> "Exception"
      [] cls = "EOFError" -> "Exception"
      [] cls = "TypeError" -> "Exception"
      [] cls = "Exception" -> "BaseException"
      [] cls = "KeyboardInterrupt" -> "BaseException"
      [] cls = "SystemExit" -> "BaseException"
      [] OTHER -> "object"

RECURSIVE IsSubclass(_, _)
IsSubclass(cls, base) ==
    IF cls = base THEN TRUE
    ELSE IF cls = "object" THEN FALSE
    ELSE IsSubclass(Parent(cls), base)

\* an exception in flight: its class, the step that raised it, and the
\* argument of a SystemExit
NoExc == [cls |-> "none", at |-> "none", code |-> 0]
Raised(cls, step) == [cls |-> cls, at |-> step, code |-> 0]
SysExit(code, step) == [cls |-> "SystemExit", at |-> step, code |-> code]

-----------------------------------------------------------------------------
(* The statements of main(), in program order *)

\* mgr.stop() written before net.stop()
ProgramSwapped ==
    << "parse_args", "clamp", "makedirs", "topology", "net_start",
       "add_server", "add_client", "start_server", "start_client",
       "exec_server", "exec_client", "prompt", "pkill_server", "pkill_client",
       "remove_server", "remove_client", "mgr_stop", "net_stop" >>

Program ==
    << "parse_args", "clamp", "makedirs", "topology", "net_start",
       "add_server", "add_client", "start_server", "start_client",
       "exec_server", "exec_client", "prompt", "pkill_server", "pkill_client",
       "remove_server", "remove_client", "net_stop", "mgr_stop" >>

Steps == {Program[i] : i \in 1..Len(Program)}

IndexOf(step) == CHOOSE i \in 1..Len(Program) : Program[i] = step

\* the statement that follows `step`; main() returns after the last one
Successor(step) ==
    IF IndexOf(step) = Len(Program) THEN "return" ELSE Program[IndexOf(step) + 1]

Names == {"streaming_server", "streaming_client"}

Host(c) == IF c = "streaming_server" THEN "server" ELSE "client"
AddStep(c) == "add_" \o Host(c)
StartStep(c) == "start_" \o Host(c)
ExecStep(c) == "exec_" \o Host(c)
PkillStep(c) == "pkill_" \o Host(c)
RemoveStep(c) == "remove_" \o Host(c)

\* the except clauses around the manager calls naming CalledProcessError, as
\* those around the docker commands do
HandlerClassNarrow(step) ==
    CASE step \in {"add_server", "add_client", "remove_server", "remove_client",
                   "start_server", "start_client", "exec_server", "exec_client",
                   "pkill_server", "pkill_client"}
            -> "CalledProcessError"
      [] OTHER -> "none"

\* the two docker start commands left outside a try block
HandlerClassNoStart(step) ==
    CASE step \in {"add_server", "add_client", "remove_server", "remove_client"}
            -> "Exception"
      [] step \in {"exec_server", "exec_client", "pkill_server", "pkill_client"}
            -> "CalledProcessError"
      [] OTHER -> "none"

\* the class named by the except clause around `step`, "none" where the
\* statement stands outside every try block of main()
HandlerClass(step) ==
    CASE step \in {"add_server", "add_client", "remove_server", "remove_client"}
            -> "Exception"
      [] step \in {"start_server", "start_client", "exec_server", "exec_client",
                   "pkill_server", "pkill_client"}
            -> "CalledProcessError"
      [] OTHER -> "none"

Caught(step, cls) == HandlerClass(step) # "none" /\ IsSubclass(cls, HandlerClass(step))

\* an except block that runs the statement again
AfterHandlerRetry(step) == step

\* an except block that ends with a return
AfterHandlerReturn(step) == "return"

\* a failed docker start that skips the docker exec in the same container
AfterHandlerSkip(step) ==
    IF step \in {"start_server", "start_client"}
      THEN Successor(Successor(Successor(step)))
      ELSE Successor(step)

\* where control goes once the except block of `step` has logged the error:
\* it falls through to the statement after the try statement
AfterHandler(step) == Successor(step)

\* a finally clause that runs the closing operations once the network is up
OnEscapeCleanup(step) ==
    IF IndexOf(step) > IndexOf("net_start") /\ IndexOf(step) < IndexOf("remove_server")
      THEN "remove_server"
      ELSE "unwound"

\* where control goes when an exception leaves `step` uncaught: out of
\* main(), to the try statement of the __main__ block
OnEscape(step) == "unwound"

\* the exceptions the call made at `step` can raise by itself
Raises(step) ==
    CASE step = "topology" -> {"Exception"}
      [] step = "net_start" -> {"Exception"}
      [] step \in {"add_server", "add_client", "remove_server", "remove_client"}
            -> {"Exception"}
      [] step \in {"start_server", "start_client", "exec_server", "exec_client",
                   "pkill_server", "pkill_client"}
            -> {"CalledProcessError", "OSError"}
      [] step = "prompt" -> {"EOFError"}
      [] step \in {"net_stop", "mgr_stop"} -> {"Exception"}
      [] OTHER -> {}

Outcomes(step) == {"ok"} \cup Raises(step)

\* the control and output part of a statement that makes one external call:
\* the call completes with `outcome`; okMsgs are logged when it returns,
\* errMsg by the except block when it raises what the block catches
Call(step, call, outcome, before, okMsgs, errMsg) ==
    /\ pc = step
    /\ calls' = Append(calls, call)
    /\ IF outcome = "ok"
          THEN /\ pc' = Successor(step)
               /\ log' = log \o before \o okMsgs
               /\ exc' = exc
          ELSE IF Caught(step, outcome)
          THEN /\ pc' = AfterHandler(step)
               /\ log' = log \o before \o <<errMsg>>
               /\ exc' = exc
          ELSE /\ pc' = OnEscape(step)
               /\ log' = log \o before
               /\ exc' = Raised(outcome, step)
    /\ UNCHANGED <<args, bandwidth, delay, middle_link, term, exitCode, fs, runs>>

-----------------------------------------------------------------------------
(* The command line *)

\* what follows a flag on the command line
Absent == [form |-> "absent", v |-> 0]
NoValue == [form |-> "novalue", v |-> 0]
NanText == [form |-> "nan", v |-> 0]
Junk == [form |-> "junk", v |-> 0]
Numeral(n) == [form |-> "num", v |-> n]

\* the command lines of the complete runs: each flag absent, without a
\* value, with a text that is no number, or with the value 0
BwTokens == {Absent, NoValue, Junk, Numeral(0)}
DelayTokens == {Absent, NoValue, Junk, Numeral(0)}

\* the command lines of the runs that stop once the link is built: every
\* form of a flag, the numbers ranging around the floor
BwTokensWide ==
    {Absent, NoValue, NanText, Junk} \cup {Numeral(n) : n \in (0 - MaxMag)..(MinBw + MaxMag)}
DelayTokensWide ==
    {Absent, NoValue, NanText, Junk} \cup {Numeral(n) : n \in (0 - MaxMag)..(MinDelay + MaxMag)}

\* argparse with type=float, nargs='?': the default when the flag is absent,
\* None (the const) when it has no value, float(text) otherwise
ArgValue(tok, default) ==
    CASE tok.form = "absent" -> PyInt(default)
      [] tok.form = "novalue" -> PyNone
      [] tok.form = "nan" -> PyNaN
      [] OTHER -> PyFloat(tok.v)

\* float(text) raises ValueError, which argparse turns into error(): exit 2
Rejected(tok) == tok.form = "junk"

-----------------------------------------------------------------------------
(* main(), statement by statement *)

\* lines 16-23
ParseArgsFrom(bwTokens, delayTokens) ==
    /\ pc = "parse_args"
    /\ \E help \in BOOLEAN, bw \in bwTokens, dl \in delayTokens :
         IF help
           THEN /\ bw = Absent /\ dl = Absent
                /\ pc' = OnEscape("parse_args")
                /\ exc' = SysExit(0, "parse_args")
                /\ args' = args
           ELSE IF Rejected(bw) \/ Rejected(dl)
           THEN /\ pc' = OnEscape("parse_args")
                /\ exc' = SysExit(2, "parse_args")
                /\ args' = args
           ELSE /\ pc' = Successor("parse_args")
                /\ exc' = exc
                /\ args' = [link_bw |-> ArgValue(bw, DefaultBw),
                            link_delay |-> ArgValue(dl, DefaultDelay)]
    /\ UNCHANGED <<bandwidth, delay, middle_link, calls, log, term, exitCode,
                   fs, netRunning, containers, runs>>

ParseArgs == ParseArgsFrom(BwTokens, DelayTokens)

ParseArgsWide == ParseArgsFrom(BwTokensWide, DelayTokensWide)

\* a floor of 0 for the bandwidth
ClampBwNoFloor(b) == PyMax(b, PyFloat(0))

\* line 26
ClampBw(b) == PyMax(b, PyFloat(MinBw))
\* line 27
ClampDelay(d) == PyMax(d, PyInt(MinDelay))

\* lines 25-27; max() of None and a number raises TypeError
Clamp ==
    /\ pc = "clamp"
    /\ IF args.link_bw = PyNone
         THEN /\ pc' = OnEscape("clamp")
              /\ exc' = Raised("TypeError", "clamp")
              /\ UNCHANGED <<bandwidth, delay>>
         ELSE /\ bandwidth' = ClampBw(args.link_bw)
              /\ IF args.link_delay = PyNone
                   THEN /\ pc' = OnEscape("clamp")
                        /\ exc' = Raised("TypeError", "clamp")
                        /\ delay' = delay
                   ELSE /\ pc' = Successor("clamp")
                        /\ exc' = exc
                        /\ delay' = ClampDelay(args.link_delay)
    /\ UNCHANGED <<args, middle_link, calls, log, term, exitCode,
                   fs, netRunning, containers, runs>>

\* os.makedirs(shared_dir) without exist_ok
ExistOkFalse == FALSE

\* line 32: the exist_ok argument
ExistOk == TRUE

\* os.makedirs(path, exist_ok): what it can do to the path, and what it raises
MakedirsResults(state, exist_ok) ==
    CASE state = "dir" ->
            IF exist_ok THEN {[raises |-> "ok", fs |-> "dir"]}
            ELSE {[raises |-> "FileExistsError", fs |-> "dir"]}
      [] state = "file" -> {[raises |-> "FileExistsError", fs |-> "file"]}
      [] OTHER -> {[raises |-> "ok", fs |-> "dir"],
                   [raises |-> "PermissionError", fs |-> "absent"]}

\* lines 29-32
Makedirs ==
    /\ pc = "makedirs"
    /\ \E r \in MakedirsResults(fs, ExistOk) :
         /\ fs' = r.fs
         /\ IF r.raises = "ok"
              THEN pc' = Successor("makedirs") /\ exc' = exc
              ELSE pc' = OnEscape("makedirs") /\ exc' = Raised(r.raises, "makedirs")
    /\ UNCHANGED <<args, bandwidth, delay, middle_link, calls, log, term, exitCode,
                   netRunning, containers, runs>>

\* line 59: the keyword arguments of the link between the two switches
MiddleLink(bw, dl) == [bw |-> bw, delay |-> PyStr(dl) \o "ms"]

\* lines 34-60
Topology ==
    /\ pc = "topology"
    /\ \E outcome \in Outcomes("topology") :
         IF outcome = "ok"
           THEN /\ pc' = Successor("topology")
                /\ middle_link' = MiddleLink(bandwidth, delay)
                /\ log' = log \o <<"*** Add controller", "*** Creating hosts",
                                   "*** Adding switches and links">>
                /\ exc' = exc
           ELSE /\ pc' = OnEscape("topology")
                /\ exc' = Raised(outcome, "topology")
                /\ UNCHANGED <<middle_link, log>>
    /\ UNCHANGED <<args, bandwidth, delay, calls, term, exitCode,
                   fs, netRunning, containers, runs>>

\* lines 62-65
NetStart ==
    \E outcome \in Outcomes("net_start") :
      /\ Call("net_start", "net.start", outcome, <<"*** Starting network">>, <<>>, "")
      /\ netRunning' = IF outcome = "ok" THEN TRUE ELSE netRunning
      /\ UNCHANGED containers

\* lines 67-91
AddContainer(c) ==
    \E outcome \in Outcomes(AddStep(c)) :
      /\ Call(AddStep(c), "addContainer " \o c, outcome,
              IF c = "streaming_server" THEN <<"*** Adding Docker containers">> ELSE <<>>,
              <<"*** Added " \o c \o " container">>,
              "Error adding " \o c \o " container")
      /\ containers' = IF outcome = "ok" THEN containers \cup {c} ELSE containers
      /\ UNCHANGED netRunning

\* lines 93-105
DockerStart(c) ==
    \E outcome \in Outcomes(StartStep(c)) :
      /\ Call(StartStep(c), "docker start " \o c, outcome,
              IF c = "streaming_server" THEN <<"*** Starting Docker containers">> ELSE <<>>,
              <<"*** Started " \o c \o " container">>,
              "Error starting " \o c \o " container")
      /\ UNCHANGED <<netRunning, containers>>

Script(c) == IF c = "streaming_server" THEN "stream_video.sh" ELSE "get_video_stream.sh"
Activity(c) == IF c = "streaming_server" THEN "video streaming" ELSE "packet capture"

\* lines 107-119
DockerExec(c) ==
    \E outcome \in Outcomes(ExecStep(c)) :
      /\ Call(ExecStep(c), "docker exec " \o c \o " " \o Script(c), outcome,
              IF c = "streaming_server"
                THEN <<"*** Starting video streaming and packet capture">> ELSE <<>>,
              <<"*** Started " \o Activity(c) \o " on " \o c>>,
              "Error starting " \o Activity(c) \o " on " \o c)
      /\ UNCHANGED <<netRunning, containers>>

\* lines 121-122: input() returns on Enter and raises EOFError at end of input
Prompt ==
    \E outcome \in Outcomes("prompt") :
      /\ Call("prompt", "input", outcome, <<>>, <<>>, "")
      /\ UNCHANGED <<netRunning, containers>>

\* lines 124-136
Pkill(c) ==
    \E outcome \in Outcomes(PkillStep(c)) :
      /\ Call(PkillStep(c), "docker exec " \o c \o " pkill " \o Script(c), outcome,
              IF c = "streaming_server"
                THEN <<"*** Stopping video streaming and packet capture">> ELSE <<>>,
              <<"*** Stopped " \o Activity(c) \o " on " \o c>>,
              "Error stopping " \o Activity(c) \o " on " \o c)
      /\ UNCHANGED <<netRunning, containers>>

\* lines 138-150
RemoveContainer(c) ==
    \E outcome \in Outcomes(RemoveStep(c)) :
      /\ Call(RemoveStep(c), "removeContainer " \o c, outcome,
              IF c = "streaming_server"
                THEN <<"*** Stopping Docker containers and network">> ELSE <<>>,
              <<"*** Removed " \o c \o " container">>,
              "Error removing " \o c \o " container")
      /\ containers' = IF outcome = "ok" THEN containers \ {c} ELSE containers
      /\ UNCHANGED netRunning

\* line 152
NetStop ==
    \E outcome \in Outcomes("net_stop") :
      /\ Call("net_stop", "net.stop", outcome, <<>>, <<>>, "")
      /\ netRunning' = IF outcome = "ok" THEN FALSE ELSE netRunning
      /\ UNCHANGED containers

\* lines 153-154
MgrStop ==
    \E outcome \in Outcomes("mgr_stop") :
      /\ Call("mgr_stop", "mgr.stop", outcome, <<>>, <<"*** Network stopped">>, "")
      /\ UNCHANGED <<netRunning, containers>>

\* Ctrl-C while main() runs: KeyboardInterrupt is raised in the statement
\* under execution, whose call does not complete
Interrupt ==
    /\ pc \in Steps
    /\ pc' = IF Caught(pc, "KeyboardInterrupt") THEN AfterHandler(pc) ELSE OnEscape(pc)
    /\ exc' = IF Caught(pc, "KeyboardInterrupt") THEN exc ELSE Raised("KeyboardInterrupt", pc)
    /\ UNCHANGED <<args, bandwidth, delay, middle_link, calls, log, term, exitCode,
                   fs, netRunning, containers, runs>>

-----------------------------------------------------------------------------
(* The __main__ block and the end of the process *)

\* a bare except around main()
TopLevelBare == "BaseException"

\* line 159: the class named by the except clause around main()
TopLevelClass == "Exception"

\* sys.exit(1) of line 161
HandlerExit == [term |-> "exited", code |-> 1]

\* how the interpreter ends on an exception nothing caught: SystemExit ends
\* the process with its argument as the exit code, KeyboardInterrupt ends it
\* by the signal (no exit code)
InterpreterExit(e) ==
    IF e.cls = "SystemExit" THEN [term |-> "exited", code |-> e.code]
    ELSE IF e.cls = "KeyboardInterrupt" THEN [term |-> "signalled", code |-> 0]
    ELSE [term |-> "exited", code |-> 1]

\* lines 156-161, main() having raised
TopLevel ==
    /\ pc = "unwound"
    /\ pc' = "exited"
    /\ IF IsSubclass(exc.cls, TopLevelClass)
         THEN /\ log' = Append(log, "Error: " \o exc.cls)
              /\ term' = HandlerExit.term
              /\ exitCode' = HandlerExit.code
         ELSE /\ log' = log
              /\ term' = InterpreterExit(exc).term
              /\ exitCode' = InterpreterExit(exc).code
    /\ UNCHANGED <<args, bandwidth, delay, middle_link, calls, exc,
                   fs, netRunning, containers, runs>>

\* lines 156-158, main() having returned: the interpreter exits with 0
Return ==
    /\ pc = "return"
    /\ pc' = "exited"
    /\ term' = "exited"
    /\ exitCode' = 0
    /\ UNCHANGED <<args, bandwidth, delay, middle_link, calls, log, exc,
                   fs, netRunning, containers, runs>>

\* the state of a process that has just been started
Fresh ==
    /\ pc = "parse_args"
    /\ args = [link_bw |-> Unset, link_delay |-> Unset]
    /\ bandwidth = Unset
    /\ delay = Unset
    /\ middle_link = [bw |-> Unset, delay |-> ""]
    /\ calls = <<>>
    /\ log = <<>>
    /\ exc = NoExc
    /\ term = "running"
    /\ exitCode = 0

\* the script is run again on the machine the previous run left behind
Rerun ==
    /\ pc = "exited"
    /\ runs < MaxRuns
    /\ runs' = runs + 1
    /\ pc' = "parse_args"
    /\ args' = [link_bw |-> Unset, link_delay |-> Unset]
    /\ bandwidth' = Unset
    /\ delay' = Unset
    /\ middle_link' = [bw |-> Unset, delay |-> ""]
    /\ calls' = <<>>
    /\ log' = <<>>
    /\ exc' = NoExc
    /\ term' = "running"
    /\ exitCode' = 0
    /\ UNCHANGED <<fs, netRunning, containers>>

Init ==
    /\ Fresh
    /\ fs \in {"absent", "file"}
    /\ netRunning = FALSE
    /\ containers = {}
    /\ runs = 0

Next ==
    \/ ParseArgs
    \/ Clamp
    \/ Makedirs
    \/ Topology
    \/ NetStart
    \/ \E c \in Names : AddContainer(c)
    \/ \E c \in Names : DockerStart(c)
    \/ \E c \in Names : DockerExec(c)
    \/ Prompt
    \/ \E c \in Names : Pkill(c)
    \/ \E c \in Names : RemoveContainer(c)
    \/ NetStop
    \/ MgrStop
    \/ Interrupt
    \/ TopLevel
    \/ Return
    \/ Rerun

Spec == Init /\ [][Next]_vars

\* the runs up to the construction of the link, over the wide command lines
NextCli ==
    \/ ParseArgsWide
    \/ Clamp
    \/ Makedirs
    \/ Topology
    \/ TopLevel

SpecCli == Init /\ [][NextCli]_vars

-----------------------------------------------------------------------------
(* Properties *)

InLog(m) == \E i \in DOMAIN log : log[i] = m
InCalls(c) == \E i \in DOMAIN calls : calls[i] = c
Count(c) == Cardinality({i \in DOMAIN calls : calls[i] = c})

Exited == pc = "exited"
LinkBuilt == middle_link.bw # Unset
\* an exception raised by the call of a step, not by Ctrl-C
StepRaised == exc.cls \notin {"none", "KeyboardInterrupt"}

\* C1: once the link between the switches is built, a numeric --link-bw b has
\* given it the bandwidth max(b, floor): the floor, which is strictly
\* positive, for every b <= 0 (and every b below the floor), and b itself from
\* the floor up; a numeric --link-delay d has given it the delay max(d, 0),
\* a zero for every d <= 0 ("0ms" below 0, the 0.0 passed itself at 0) and d
\* itself above.
ClampedLink ==
    LinkBuilt =>
      /\ IsReal(args.link_bw) =>
           /\ IsReal(middle_link.bw)
           /\ middle_link.bw.v > 0
           /\ middle_link.bw.v >= MinBw
           /\ args.link_bw.v <= MinBw => middle_link.bw.v = MinBw
           /\ args.link_bw.v >= MinBw => middle_link.bw = args.link_bw
      /\ IsReal(args.link_delay) =>
           /\ args.link_delay.v <= 0 => middle_link.delay \in {"0ms", "0.0ms"}
           /\ args.link_delay.v < 0 => middle_link.delay = "0ms"
           /\ args.link_delay.v >= 0 =>
                middle_link.delay = PyStr(args.link_delay) \o "ms"

ClampedLinkWitness ==
    /\ LinkBuilt
    /\ args.link_bw = PyFloat(0 - 1)
    /\ middle_link.bw = PyFloat(MinBw)
    /\ args.link_delay = PyFloat(0 - 1)
    /\ middle_link.delay = "0ms"

\* C2 as stated: the process ends with exit code 0 or 1 and no other way,
\* whatever the command line and the outcome of the steps: 1 if a step of
\* main() raised an exception that no local handler caught, 0 if none did.
ExitOneOrZero ==
    Exited =>
      /\ term = "exited"
      /\ exitCode \in {0, 1}
      /\ exc.cls = "none" => exitCode = 0
      /\ (exc.cls # "none" /\ exc.at # "parse_args") => exitCode = 1

\* C2 amended: the process exits with code 1 if a step raised an exception
\* derived from Exception that no local handler caught and with code 0 when
\* main() returned; a SystemExit of argparse ends it with the code argparse
\* chose (2 for a rejected command line, 0 for --help) and a
\* KeyboardInterrupt ends it by the signal.
ExitStatus ==
    Exited =>
      CASE exc.cls = "none" -> term = "exited" /\ exitCode = 0
        [] exc.cls = "SystemExit" ->
             /\ exc.at = "parse_args"
             /\ term = "exited"
             /\ exitCode = exc.code
             /\ exitCode \in {0, 2}
        [] exc.cls = "KeyboardInterrupt" -> term = "signalled"
        [] OTHER -> term = "exited" /\ exitCode = 1

ExitStatusWitness ==
    /\ Exited
    /\ exc = Raised("OSError", "start_server")
    /\ InLog("Error adding streaming_client container")
    /\ term = "exited"
    /\ exitCode = 1

ListedSteps ==
    {"makedirs", "topology", "net_start", "add_server", "add_client",
     "start_server", "start_client", "exec_server", "exec_client", "prompt",
     "pkill_server", "pkill_client", "remove_server", "remove_client", "net_stop"}

\* C3 as stated: whatever a step from directory creation to network stop
\* raises, the sequence is not aborted: no exception raised by such a step
\* leaves it.
NoStepAborts == ~(StepRaised /\ exc.at \in ListedSteps)

ManagerSteps == {"add_server", "add_client", "remove_server", "remove_client"}
DockerSteps ==
    {"start_server", "start_client", "exec_server", "exec_client",
     "pkill_server", "pkill_client"}
\* the class each wrapped step is protected against
Protected(step) == IF step \in ManagerSteps THEN "Exception" ELSE "CalledProcessError"

\* C3 amended: the container add, docker start, docker exec, pkill and
\* container removal steps are each wrapped: when the call of such a step
\* completes, execution is at the next step unless the call raised an
\* exception outside the class its handler names (Exception for the manager
\* calls, CalledProcessError for the docker commands), which aborts the
\* sequence; directory creation, topology construction, network start, the
\* prompt, net.stop and mgr.stop are not wrapped, and an exception there
\* aborts the sequence.
WrappedStepsContinue ==
    [][ /\ (pc \in ManagerSteps \cup DockerSteps /\ Len(calls') > Len(calls)) =>
             IF exc' = exc
               THEN pc' = Successor(pc)
               ELSE pc' = "unwound" /\ ~IsSubclass(exc'.cls, Protected(pc))
        /\ (pc \in Steps \ (ManagerSteps \cup DockerSteps) /\ exc' # exc) =>
             pc' = "unwound"
      ]_vars

WrappedStepsContinueWitness ==
    /\ pc = "start_client"
    /\ InLog("Error adding streaming_server container")
    /\ InLog("Error starting streaming_server container")

Order ==
    << "net.start",
       "addContainer streaming_server", "addContainer streaming_client",
       "docker start streaming_server", "docker start streaming_client",
       "docker exec streaming_server stream_video.sh",
       "docker exec streaming_client get_video_stream.sh",
       "input",
       "docker exec streaming_server pkill stream_video.sh",
       "docker exec streaming_client pkill get_video_stream.sh",
       "removeContainer streaming_server", "removeContainer streaming_client",
       "net.stop", "mgr.stop" >>

\* C4: the external calls completed so far are an initial part of the fixed
\* order: each at most once, none repeated after a failure, and the stop and
\* removal calls only after the prompt, which has then returned.
CallsInOrder ==
    /\ Len(calls) <= Len(Order)
    /\ \A i \in DOMAIN calls : calls[i] = Order[i]
    /\ \A c \in {Order[i] : i \in DOMAIN Order} : Count(c) <= 1
    /\ Len(calls) > 8 => (exc.at # "prompt" /\ calls[8] = "input")

CallsInOrderWitness ==
    /\ Exited
    /\ calls = Order
    /\ InLog("Error starting streaming_server container")
    /\ InLog("Error stopping packet capture on streaming_client")

PromptReturned == InCalls("input") /\ exc.at # "prompt"

CleanupAttempted ==
    /\ InCalls("removeContainer streaming_server")
    /\ InCalls("removeContainer streaming_client")
    /\ InCalls("net.stop")

MakedirsIdempotent ==
    [][ (pc = "makedirs" /\ fs = "dir" /\ exc'.cls # "KeyboardInterrupt") =>
          (pc' = "topology" /\ fs' = "dir" /\ exc' = NoExc) ]_vars

MakedirsIdempotentWitness ==
    /\ runs = 1
    /\ fs = "dir"
    /\ pc = "net_start"
    /\ LinkBuilt

FailedToStart(c) ==
    \/ InLog("Error adding " \o c \o " container")
    \/ InLog("Error starting " \o c \o " container")

\* C7: in a run that ended with every failure handled locally, the exit code
\* is 0, and for a container whose add or docker start failed the docker
\* exec, the pkill and the removal have been attempted all the same.
FailedStartSuppressesNothing ==
    (Exited /\ exc = NoExc) =>
      /\ term = "exited" /\ exitCode = 0
      /\ \A c \in Names :
           FailedToStart(c) =>
             /\ Count("docker exec " \o c \o " " \o Script(c)) = 1
             /\ Count("docker exec " \o c \o " pkill " \o Script(c)) = 1
             /\ Count("removeContainer " \o c) = 1

FailedStartSuppressesNothingWitness ==
    /\ Exited
    /\ exc = NoExc
    /\ exitCode = 0
    /\ InLog("Error adding streaming_server container")
    /\ InLog("Error starting streaming_server container")
    /\ InLog("Error starting streaming_client container")
    /\ InCalls("docker exec streaming_server stream_video.sh")
    /\ InCalls("removeContainer streaming_server")

BetweenStartAndCleanup ==
    {"add_server", "add_client", "start_server", "start_client",
     "exec_server", "exec_client", "prompt", "pkill_server", "pkill_client"}

\* C8: when an exception has left main() from a step after net.start() and
\* before the closing operations, no removeContainer, net.stop() or
\* mgr.stop() call is made in that run, and the network and the containers
\* the run added are still there when the process has ended.
EscapeLeaksResources ==
    (pc \in {"unwound", "exited"} /\ exc.at \in BetweenStartAndCleanup) =>
      /\ ~InCalls("removeContainer streaming_server")
      /\ ~InCalls("removeContainer streaming_client")
      /\ ~InCalls("net.stop")
      /\ ~InCalls("mgr.stop")
      /\ InCalls("net.start")
      /\ netRunning
      /\ \A c \in Names : InLog("*** Added " \o c \o " container") => c \in containers

EscapeLeaksResourcesWitness ==
    /\ Exited
    /\ exc = Raised("EOFError", "prompt")
    /\ exitCode = 1
    /\ netRunning
    /\ containers = Names

\* C9: mgr.stop() is called only once net.stop() has returned, and in a run
\* where net.stop() raised, mgr.stop() is not called, '*** Network stopped'
\* is not logged and the process exits with code 1.
TeardownNotGuarded ==
    /\ InCalls("mgr.stop") => (InCalls("net.stop") /\ exc.at # "net_stop")
    /\ (StepRaised /\ exc.at = "net_stop") =>
         /\ pc \in {"unwound", "exited"}
         /\ InCalls("net.stop")
         /\ ~InCalls("mgr.stop")
         /\ ~InLog("*** Network stopped")
         /\ Exited => (term = "exited" /\ exitCode = 1)

TeardownNotGuardedWitness ==
    /\ Exited
    /\ exc = Raised("Exception", "net_stop")
    /\ exitCode = 1
    /\ InLog("*** Removed streaming_client container")

\* C10: when the removal of streaming_server completes, by returning or by
\* raising, the removal of streaming_client is next; each removal is made at
\* most once, and exactly once by the time net.stop() is due, whether the
\* matching addContainer call succeeded or failed.
RemovalsIndependent ==
    /\ [](\A c \in Names :
            /\ Count("removeContainer " \o c) <= 1
            /\ pc \in {"net_stop", "mgr_stop", "return"} =>
                 Count("removeContainer " \o c) = 1)
    /\ [][ (pc = "remove_server" /\ Len(calls') > Len(calls)) =>
             (pc' = "remove_client" /\ exc' = NoExc) ]_vars

RemovalsIndependentWitness ==
    /\ pc = "net_stop"
    /\ InLog("Error adding streaming_server container")
    /\ InLog("Error removing streaming_server container")
    /\ InLog("*** Added streaming_client container")
    /\ InCalls("removeContainer streaming_client")

====
